---- MODULE Spec2Model ----
(***************************************************************************)
(* Model of piws_setup/piws_setup.py: the configuration loader, the        *)
(* configuration selector, the command runner, the two fetchers and the    *)
(* top-level installer sequence, over an abstract filesystem made of the   *)
(* writable cubes directory ("target") and the clone directory ("staging").*)
(***************************************************************************)
EXTENDS Integers, Sequences, FiniteSets, TLC

(***************************************************************************)
(* Bounds and value domains.                                               *)
(***************************************************************************)
MaxRuns == 2      \* installer runs on the same directories
MaxTools == 1     \* length of pypi_tools
MaxFiles == 2     \* .conf files found by the selector
MaxLen == 2       \* length of a line typed at the selector prompt

Null == "null"                    \* JSON null / Python None as a revision
Names == {"a", "b"}               \* package names
Revs == {Null, "r1"}              \* package versions (revisions)
RelPaths == {".", "sub"}          \* cube_relative_path values
HgUrls == <<"hg://x">>            \* keys of hg_cubes
GitUrls == <<"git://x">>          \* keys of git_cubes
Tools == <<"t1", "t2", "t3">>     \* pypi tool names, by position
Fields == {"version", "hg_cubes", "git_cubes", "pypi_tools"}
ReturnCodes == {0, 1}             \* exit status of an external command
Chars == {"0", "1", "2", "-", "x"}
FileNames == <<"a.conf", "b.conf", "c.conf">>
Versions == {"1.0", "2.0"}

VARIABLES
    json,          \* the parsed configuration of the chosen file
    target,        \* entries of the cubes directory, by name
    staging,       \* directories of the clone directory, by name
    pc,            \* position of the installer run
    err,           \* the exception that ended the run, if any
    run,           \* number of the current run
    hist,          \* outcomes of the earlier runs
    fresh,         \* the first run started from an empty cubes directory
    t,             \* index of the next pypi tool
    k,             \* index of the cube being exported
    log,           \* commands, symlinks and skips of the current run, in order
    reported,      \* violations printed by the integrity check of this run
    checked,       \* fields the integrity check examined in this run
    config_files,  \* selector: the .conf files found, in glob order
    displayed,     \* selector: the rows of the printed table
    user_input,    \* selector: the last line read
    sel_pc,        \* selector: position
    sel_out,       \* selector: last message printed by the prompt loop
    json_file      \* selector: the returned path

instvars == <<json, target, staging, pc, err, run, hist, fresh, t, k, log,
              reported, checked>>
selvars == <<config_files, displayed, user_input, sel_pc, sel_out, json_file>>
vars == <<json, target, staging, pc, err, run, hist, fresh, t, k, log,
          reported, checked, config_files, displayed, user_input, sel_pc,
          sel_out, json_file>>

(***************************************************************************)
(* JSON values: the concrete Python type of the value and its content.     *)
(***************************************************************************)
Missing == [type |-> "missing", val |-> <<>>]
JVal(ty, v) == [type |-> ty, val |-> v]

SeqsUpTo(S, n) == UNION {[1..m -> S] : m \in 0..n}

Items == [name : Names, rev : Revs, rel : RelPaths]

\* the (url, item) pairs of a dict with keys taken from urls, as .items() lists them
DictItems(urls) ==
    {[i \in 1..Len(s) |-> [url |-> urls[i], name |-> s[i].name,
                           rev |-> s[i].rev, rel |-> s[i].rel]] :
        s \in SeqsUpTo(Items, Len(urls))}

ToolLists == {[i \in 1..m |-> Tools[i]] : m \in 0..MaxTools}

WrongTyped(tys) == {JVal(ty, <<>>) : ty \in tys} \cup {Missing}

VersionValues ==
    {JVal("unicode", <<"1.0">>), JVal("NoneType", <<>>)} \cup WrongTyped({"list"})
HgValues ==
    {JVal("dict", s) : s \in DictItems(HgUrls)} \cup WrongTyped({"list"})
GitValues ==
    {JVal("dict", s) : s \in DictItems(GitUrls)} \cup WrongTyped({"list"})
PypiValues ==
    {JVal("list", s) : s \in ToolLists} \cup WrongTyped({"dict"})

Configurations ==
    [version : VersionValues, hg_cubes : HgValues, git_cubes : GitValues,
     pypi_tools : PypiValues]

(***************************************************************************)
(* check_configuration_integrity                                           *)
(***************************************************************************)
\* The list [unicode, None] holds the value None, which no type() result equals.
expected_types ==
    [version |-> {"unicode", "None"},
     hg_cubes |-> {"dict"},
     git_cubes |-> {"dict"},
     pypi_tools |-> {"list"}]

\* the orders in which expected_types.items() can list the four fields
Orders == {o \in [1..4 -> Fields] : \A i, j \in 1..4 : o[i] = o[j] => i = j}

RECURSIVE CheckFrom(_, _, _, _)
CheckFrom(json_data, order, i, acc) ==
    IF i > Len(order)
    THEN [acc EXCEPT !.outcome = IF acc.fails # 0 THEN "exited" ELSE "ok"]
    ELSE LET field_name == order[i]
             seen == [acc EXCEPT !.checked = @ \cup {field_name}]
         IN IF json_data[field_name].type = "missing"
            THEN \* format(file_name, key): the name key is unbound, NameError
                 [seen EXCEPT !.outcome = "crashed"]
            ELSE IF json_data[field_name].type \notin expected_types[field_name]
            THEN CheckFrom(json_data, order, i + 1,
                           [seen EXCEPT !.printed = Append(@, field_name),
                                        !.fails = @ + 1])
            ELSE CheckFrom(json_data, order, i + 1, seen)

check_configuration_integrity(json_data, order) ==
    CheckFrom(json_data, order, 1,
              [printed |-> <<>>, checked |-> {}, fails |-> 0, outcome |-> "ok"])

(***************************************************************************)
(* Paths and the filesystem                                                *)
(***************************************************************************)
NoEntry == [kind |-> "none", to |-> <<>>, info |-> FALSE]
RealDir(info) == [kind |-> "dir", to |-> <<>>, info |-> info]
Symlink(to) == [kind |-> "symlink", to |-> to, info |-> FALSE]
NoDir == [exists |-> FALSE, infos |-> {}, rev |-> Null]
Dir(infos, rev) == [exists |-> TRUE, infos |-> infos, rev |-> rev]

cube_folder(package_name) == <<"target", package_name>>
package_folder(package_name) == <<"staging", package_name>>
\* variant: the relative path left out of the join
package_cube_folder_root(package_name, cube_relative_path) ==
    <<"staging", package_name, ".">>

package_cube_folder(package_name, cube_relative_path) ==
    package_folder(package_name) \o <<cube_relative_path>>

\* variant: os.path.exists, which follows a symlink to its destination
lexists_follow(path) ==
    LET e == target[path[2]]
    IN CASE e.kind = "dir" -> TRUE
         [] e.kind = "symlink" -> e.to[1] = "staging" /\ staging[e.to[2]].exists
         [] OTHER -> FALSE

\* variant: the test of line 337 left out
lexists_never(path) == FALSE

\* os.path.lexists on a path of the cubes directory
lexists(path) == target[path[2]].kind # "none"

\* os.path.isdir on a path of the clone directory
isdir(path) == staging[path[2]].exists

\* os.path.isfile(os.path.join(path, "__pkginfo__.py")) for a path of the clone directory
StagingInfo(path) ==
    /\ Len(path) = 3
    /\ path[1] = "staging"
    /\ staging[path[2]].exists
    /\ path[3] \in staging[path[2]].infos

\* variant: the directory is tested, not the metadata file in it
isfile_pkginfo_dir(path) ==
    IF path[1] = "target"
    THEN target[path[2]].kind # "none"
    ELSE staging[path[2]].exists

\* the same for any path: a symlink of the cubes directory is followed
isfile_pkginfo(path) ==
    IF path[1] = "target"
    THEN LET e == target[path[2]]
         IN CASE e.kind = "dir" -> e.info
              [] e.kind = "symlink" -> StagingInfo(e.to)
              [] OTHER -> FALSE
    ELSE StagingInfo(path)

(***************************************************************************)
(* The installer                                                           *)
(***************************************************************************)
pypi_tools == json.pypi_tools.val

\* [("hg", hg_cubes), ("git", git_cubes)], flattened in processing order
Tagged(repo_type, items) ==
    [i \in 1..Len(items) |-> [repo_type |-> repo_type, url |-> items[i].url,
                              name |-> items[i].name, rev |-> items[i].rev,
                              rel |-> items[i].rel]]
cubes == Tagged("hg", json.hg_cubes.val) \o Tagged("git", json.git_cubes.val)

Cmd(op, tool, url, dir, rev, src, ok, n) ==
    [op |-> op, tool |-> tool, url |-> url, dir |-> dir, rev |-> rev,
     src |-> src, ok |-> ok, k |-> n]

\* variant: the return code is logged and not tested
check_call_with_log_silent(returncode) == "none"

\* check_call_with_log: raises when the return code is non-zero
check_call_with_log(returncode) ==
    IF returncode # 0 THEN "CalledProcessError" ELSE "none"

CubesPc(n) == IF n > Len(cubes) THEN "done" ELSE "cubes"
PipPc(n) == IF n > Len(pypi_tools) THEN CubesPc(1) ELSE "pip"

Terminal == {"done", "aborted", "exited", "crashed"}

StartRun ==
    /\ pc \in Terminal
    /\ run < MaxRuns
    /\ run' = run + 1
    /\ hist' = Append(hist, pc)
    /\ pc' = "load"
    /\ err' = "none"
    /\ t' = 1
    /\ k' = 1
    /\ log' = <<>>
    /\ reported' = <<>>
    /\ checked' = {}
    /\ UNCHANGED <<json, target, staging, fresh>>
    /\ UNCHANGED selvars

load_configuration ==
    /\ pc = "load"
    /\ \E order \in Orders :
         LET r == check_configuration_integrity(json, order)
         IN /\ reported' = r.printed
            /\ checked' = r.checked
            /\ pc' = IF r.outcome = "ok" THEN PipPc(1) ELSE r.outcome
            /\ err' = IF r.outcome = "crashed" THEN "NameError" ELSE "none"
    /\ UNCHANGED <<json, target, staging, run, hist, fresh, t, k, log>>
    /\ UNCHANGED selvars

pip_install ==
    /\ pc = "pip"
    /\ \E returncode \in ReturnCodes :
         LET e == check_call_with_log(returncode)
         IN /\ log' = Append(log, Cmd("install", "pip", pypi_tools[t], <<>>, Null,
                                      <<>>, returncode = 0, 0))
            /\ err' = e
            /\ IF e # "none"
               THEN pc' = "aborted" /\ t' = t
               ELSE pc' = PipPc(t + 1) /\ t' = t + 1
    /\ UNCHANGED <<json, target, staging, run, hist, fresh, k, reported, checked>>
    /\ UNCHANGED selvars

\* variant: the update is issued whatever the revision
needs_update_always(package_version) == TRUE

\* line 258 / 282: the revision is updated to only when one is given
needs_update(package_version) == package_version # Null

\* os.symlink(package_cube_folder, cube_folder) and the end of the loop body
Link(c, lg) ==
    LET src == package_cube_folder(c.name, c.rel)
        dst == cube_folder(c.name)
    IN IF lexists(dst)
       THEN \* os.symlink raises OSError (EEXIST)
            /\ target' = target
            /\ log' = Append(lg, Cmd("symlink", "os", c.url, dst, c.rev, src, FALSE, k))
            /\ pc' = "aborted"
            /\ err' = "OSError"
            /\ k' = k
       ELSE /\ target' = [target EXCEPT ![c.name] = Symlink(src)]
            /\ log' = Append(lg, Cmd("symlink", "os", c.url, dst, c.rev, src, TRUE, k))
            /\ pc' = CubesPc(k + 1)
            /\ err' = "none"
            /\ k' = k + 1

Abort(e, lg) ==
    /\ pc' = "aborted"
    /\ err' = e
    /\ log' = lg
    /\ k' = k
    /\ target' = target

\* what a clone command leaves at package_folder: a successful clone leaves a
\* directory at the default revision, with the metadata file at some of the
\* relative paths; a failed one removes what it created
CloneLeaves(returncode) ==
    IF returncode = 0
    THEN {Dir(infos, Null) : infos \in SUBSET RelPaths}
    ELSE {NoDir}

\* what an update/checkout command leaves: on success the working directory
\* is at the revision asked for
CheckoutLeaves(returncode, dir, package_version) ==
    IF returncode = 0
    THEN {Dir(infos, package_version) : infos \in SUBSET RelPaths}
    ELSE {dir}

\* lines 253-255 / 277-279: the clone command of hg_dl and git_dl
Clone(repo_type) ==
    /\ pc = "cubes"
    /\ LET c == cubes[k]
       IN /\ c.repo_type = repo_type
          /\ ~lexists(cube_folder(c.name))
          /\ ~isdir(package_folder(c.name))
          /\ \E returncode \in ReturnCodes :
               LET e == check_call_with_log(returncode)
                   lg == Append(log, Cmd("clone", repo_type, c.url,
                                         package_folder(c.name), c.rev, <<>>,
                                         returncode = 0, k))
               IN /\ \E d \in CloneLeaves(returncode) :
                        staging' = [staging EXCEPT ![c.name] = d]
                  /\ IF e # "none"
                     THEN Abort(e, lg)
                     ELSE IF needs_update(c.rev)
                     THEN /\ pc' = "checkout"
                          /\ err' = "none"
                          /\ log' = lg
                          /\ k' = k
                          /\ target' = target
                     ELSE Link(c, lg)
    /\ UNCHANGED <<json, run, hist, fresh, t, reported, checked>>
    /\ UNCHANGED selvars

\* lines 257-260 / 281-284: the update command of hg_dl, the checkout of git_dl
Checkout(repo_type) ==
    /\ pc = "checkout"
    /\ LET c == cubes[k]
       IN /\ c.repo_type = repo_type
          /\ \E returncode \in ReturnCodes :
               LET e == check_call_with_log(returncode)
                   lg == Append(log, Cmd("checkout", repo_type, c.url,
                                         package_folder(c.name), c.rev, <<>>,
                                         returncode = 0, k))
               IN /\ \E d \in CheckoutLeaves(returncode, staging[c.name], c.rev) :
                        staging' = [staging EXCEPT ![c.name] = d]
                  /\ IF e # "none" THEN Abort(e, lg) ELSE Link(c, lg)
    /\ UNCHANGED <<json, run, hist, fresh, t, reported, checked>>
    /\ UNCHANGED selvars

hg_dl_clone == Clone("hg")
hg_dl_update == Checkout("hg")
git_dl_clone == Clone("git")
git_dl_checkout == Checkout("git")

\* lines 348-359: the clone directory exists, the cube is not exported yet
already_cloned ==
    /\ pc = "cubes"
    /\ LET c == cubes[k]
       IN /\ ~lexists(cube_folder(c.name))
          /\ isdir(package_folder(c.name))
          /\ IF isfile_pkginfo(package_cube_folder(c.name, c.rel))
             THEN Link(c, Append(log, Cmd("already cloned", c.repo_type, c.url,
                                          package_folder(c.name), c.rev, <<>>,
                                          TRUE, k)))
             ELSE Abort("not a cube", log)
    /\ UNCHANGED <<json, staging, run, hist, fresh, t, reported, checked>>
    /\ UNCHANGED selvars

\* lines 360-369: an entry of that name is in the cubes directory
already_exported ==
    /\ pc = "cubes"
    /\ LET c == cubes[k]
       IN /\ lexists(cube_folder(c.name))
          /\ IF isfile_pkginfo(cube_folder(c.name))
             THEN /\ log' = Append(log, Cmd("already exported", c.repo_type, c.url,
                                            cube_folder(c.name), c.rev, <<>>,
                                            TRUE, k))
                  /\ pc' = CubesPc(k + 1)
                  /\ k' = k + 1
                  /\ err' = "none"
             ELSE /\ log' = log
                  /\ pc' = "aborted"
                  /\ k' = k
                  /\ err' = "not a cube"
    /\ UNCHANGED <<json, target, staging, run, hist, fresh, t, reported, checked>>
    /\ UNCHANGED selvars

(***************************************************************************)
(* Initial states: any configuration file content, a clone directory that  *)
(* is empty, and a cubes directory that holds, under each name, nothing, a *)
(* directory carrying the metadata file, or a dangling symlink.            *)
(***************************************************************************)
Dangling == Symlink(<<"nowhere">>)
TargetInit == [Names -> {NoEntry, RealDir(TRUE), Dangling}]

SelIdle ==
    /\ config_files = <<>>
    /\ displayed = {}
    /\ user_input = <<>>
    /\ sel_pc = "idle"
    /\ sel_out = "none"
    /\ json_file = <<>>

Init ==
    /\ json \in Configurations
    /\ target \in TargetInit
    /\ staging = [n \in Names |-> NoDir]
    /\ fresh = (target = [n \in Names |-> NoEntry])
    /\ pc = "load"
    /\ err = "none"
    /\ run = 1
    /\ hist = <<>>
    /\ t = 1
    /\ k = 1
    /\ log = <<>>
    /\ reported = <<>>
    /\ checked = {}
    /\ SelIdle

Next ==
    \/ StartRun
    \/ load_configuration
    \/ pip_install
    \/ hg_dl_clone
    \/ hg_dl_update
    \/ git_dl_clone
    \/ git_dl_checkout
    \/ already_cloned
    \/ already_exported

Spec == Init /\ [][Next]_vars

(***************************************************************************)
(* choose_version_to_install                                               *)
(***************************************************************************)
Inputs == SeqsUpTo(Chars, MaxLen)

Digits == <<"0", "1", "2", "3", "4", "5", "6", "7", "8", "9">>
DigitValue(c) == CHOOSE d \in 0..9 : Digits[d + 1] = c
IsDigit(c) == \E d \in 0..9 : Digits[d + 1] = c

RECURSIVE Decimal(_)
Decimal(body) ==
    IF body = <<>> THEN 0
    ELSE 10 * Decimal(SubSeq(body, 1, Len(body) - 1)) + DigitValue(body[Len(body)])

\* int(user_input): an optional sign, then one decimal digit or more;
\* anything else raises ValueError
python_int(s) ==
    LET signed == s # <<>> /\ s[1] = "-"
        body == IF signed THEN Tail(s) ELSE s
        ok == body # <<>> /\ \A i \in 1..Len(body) : IsDigit(body[i])
    IN [ok |-> ok,
        val |-> IF ok THEN (IF signed THEN 0 - Decimal(body) ELSE Decimal(body)) ELSE 0]

basename(path) == path[Len(path)]

available_versions == [i \in 1..Len(config_files) |-> config_files[i].json.version.val[1]]
files_names == [i \in 1..Len(config_files) |-> config_files[i].path]

\* variant: version_choices kept as a list, where a negative index counts from the end
has_choice_list(i) == i \in (0 - Len(available_versions))..(Len(available_versions) - 1)

\* version_choices = dict(enumerate(available_versions)): the keys are 0..n-1
\* and version_choices[i] raises KeyError for any other i
has_choice(i) == i \in 0..(Len(available_versions) - 1)

\* Python list indexing, files_names[i]
list_index(seq, i) == IF i >= 0 THEN seq[i + 1] ELSE seq[Len(seq) + i + 1]

\* what load_configuration can do with a file: return, sys.exit or NameError
LoadOutcomes(f) == {check_configuration_integrity(f.json, o).outcome : o \in Orders}

choose_version_to_install ==
    /\ sel_pc = "start"
    /\ IF config_files = <<>>
       THEN /\ sel_pc' = "exited"
            /\ sel_out' = "No configuration file was found!"
            /\ displayed' = {}
       ELSE LET bad == {i \in 1..Len(config_files) : LoadOutcomes(config_files[i]) # {"ok"}}
            IN IF bad # {}
               THEN LET first == CHOOSE i \in bad : \A j \in bad : i <= j
                    IN /\ sel_pc' \in LoadOutcomes(config_files[first])
                       /\ sel_out' = "Config file data is corrupted!"
                       /\ displayed' = {}
               ELSE /\ sel_pc' = "prompt"
                    /\ sel_out' = "Please choose the CubicWeb setup version:"
                    /\ displayed' =
                         {[key |-> i, version |-> available_versions[i + 1],
                           file |-> basename(list_index(files_names, i))] :
                            i \in 0..(Len(available_versions) - 1)}
    /\ UNCHANGED <<config_files, user_input, json_file>>
    /\ UNCHANGED instvars

\* one turn of the while True loop: raw_input, then the try/except/else
prompt ==
    /\ sel_pc = "prompt"
    /\ \E s \in Inputs :
         LET r == python_int(s)
         IN /\ user_input' = s
            /\ IF r.ok /\ has_choice(r.val)
               THEN /\ sel_out' = "Setup version"
                    /\ sel_pc' = "returned"
                    /\ json_file' = list_index(files_names, r.val)
               ELSE /\ sel_out' = "is not a valid choice!"
                    /\ sel_pc' = "prompt"
                    /\ json_file' = json_file
    /\ UNCHANGED <<config_files, displayed>>
    /\ UNCHANGED instvars

\* the content of a .conf file of the configs folder
SelConfigurations ==
    {[version |-> v, hg_cubes |-> JVal("dict", <<>>), git_cubes |-> JVal("dict", <<>>),
      pypi_tools |-> p] :
        v \in {JVal("unicode", <<x>>) : x \in Versions} \cup {JVal("NoneType", <<>>)},
        p \in {JVal("list", <<>>), Missing}}

\* glob.glob: distinct paths, in arbitrary order
ConfigFiles ==
    {fs \in SeqsUpTo([path : {<<"configs", FileNames[i]>> : i \in 1..Len(FileNames)},
                      json : SelConfigurations], MaxFiles) :
        \A i, j \in 1..Len(fs) : fs[i].path = fs[j].path => i = j}

InstIdle ==
    /\ json = [version |-> JVal("unicode", <<"1.0">>), hg_cubes |-> JVal("dict", <<>>),
               git_cubes |-> JVal("dict", <<>>), pypi_tools |-> JVal("list", <<>>)]
    /\ target = [n \in Names |-> NoEntry]
    /\ staging = [n \in Names |-> NoDir]
    /\ fresh = TRUE
    /\ pc = "idle"
    /\ err = "none"
    /\ run = 1
    /\ hist = <<>>
    /\ t = 1
    /\ k = 1
    /\ log = <<>>
    /\ reported = <<>>
    /\ checked = {}

InitSel ==
    /\ config_files \in ConfigFiles
    /\ displayed = {}
    /\ user_input = <<>>
    /\ sel_pc = "start"
    /\ sel_out = "none"
    /\ json_file = <<>>
    /\ InstIdle

NextSel ==
    \/ choose_version_to_install
    \/ prompt

SpecSel == InitSel /\ [][NextSel]_vars

(***************************************************************************)
(* Properties                                                              *)
(***************************************************************************)
\* the types the configuration format allows for each field
format_types ==
    [version |-> {"unicode", "NoneType"},
     hg_cubes |-> {"dict"},
     git_cubes |-> {"dict"},
     pypi_tools |-> {"list"}]

\* the fields that are missing or of a type the format does not allow
Offending(j) == {f \in Fields : j[f].type \notin format_types[f]}

FetchOps == {"clone", "checkout", "symlink"}
Touched(lg) == {i \in 1..Len(lg) : lg[i].op \in FetchOps}

\* C1: a configuration with a missing or mistyped field has all four fields
\* checked and one violation reported per offending field, the process ends
\* and no installation step is performed.
C1_OneReportPerField ==
    (pc # "load" /\ Offending(json) # {}) =>
        /\ pc \in {"exited", "crashed"}
        /\ checked = Fields
        /\ Len(reported) = Cardinality(Offending(json))
        /\ log = <<>>

\* C2: a configuration whose version is a string or null, whose hg_cubes and
\* git_cubes are objects and whose pypi_tools is a list is accepted: nothing
\* is reported and the process goes on.
C2_WellTypedAccepted ==
    (pc # "load" /\ Offending(json) = {}) =>
        /\ pc \notin {"exited", "crashed"}
        /\ reported = <<>>

\* C3: when an entry of the component's name is in the cubes directory
\* (a dangling symlink included, or the link made for an earlier entry of the
\* same run), processing the component issues no clone and no checkout, makes
\* no symlink and leaves both directories as they are.
C3_ExportedNotRefetched ==
    [][(pc = "cubes" /\ target[cubes[k].name].kind # "none") =>
          /\ target' = target
          /\ staging' = staging
          /\ pc' # "checkout"
          /\ Touched(log') = Touched(log)]_vars

C3_Witness ==
    \E i, j \in 1..Len(log) :
        /\ i < j
        /\ log[i].op = "symlink" /\ log[i].ok
        /\ log[j].op = "already exported"
        /\ log[j].dir = log[i].dir
        /\ log[j].k > log[i].k

\* C4 as stated: whenever the clone directory of the component being processed
\* exists and its sub-path lacks the metadata file, the run fails with the
\* "not a cube" error and no symlink is made.
C4_AsStated ==
    [][(/\ pc = "cubes"
        /\ staging[cubes[k].name].exists
        /\ cubes[k].rel \notin staging[cubes[k].name].infos) =>
          /\ pc' = "aborted"
          /\ err' = "not a cube"
          /\ target' = target]_vars

\* C4, amended: the same when, in addition, no entry of the component's name
\* is in the cubes directory.
C4_InvalidCloneRejected ==
    [][(/\ pc = "cubes"
        /\ target[cubes[k].name].kind = "none"
        /\ staging[cubes[k].name].exists
        /\ cubes[k].rel \notin staging[cubes[k].name].infos) =>
          /\ pc' = "aborted"
          /\ err' = "not a cube"
          /\ target' = target
          /\ staging' = staging
          /\ log' = log]_vars

C4_Witness ==
    /\ pc = "aborted"
    /\ err = "not a cube"
    /\ target[cubes[k].name].kind = "none"
    /\ staging[cubes[k].name].exists
    /\ cubes[k].rel \notin staging[cubes[k].name].infos

AllOk(lg) == \A i \in 1..Len(lg) : lg[i].ok
AfterFullInstall == fresh /\ run >= 2 /\ hist[1] = "done"

C6_FailureStopsRun ==
    /\ [](\A i \in 1..Len(log) :
            ~log[i].ok => /\ i = Len(log)
                          /\ pc = "aborted"
                          /\ err = "CalledProcessError")
    /\ [][(Len(log') > Len(log) /\ ~log'[Len(log')].ok) =>
            (pc' = "aborted" /\ target' = target)]_vars
    /\ [][pc = "aborted" =>
            (pc' = "load" /\ log' = <<>> /\ target' = target /\ staging' = staging)]_vars
    /\ [][\A n \in Names :
            /\ target[n].kind # "none" => target'[n] = target[n]
            /\ staging[n].exists => staging'[n].exists]_vars

C6_Witness ==
    /\ pc = "aborted"
    /\ err = "CalledProcessError"
    /\ Len(log) >= 3
    /\ log[Len(log)].op = "checkout"
    /\ staging[cubes[k].name].exists
    /\ target[cubes[k].name].kind = "none"
    /\ \E i \in 1..Len(log) : log[i].op = "symlink"

\* C7: when a run ends without aborting, an entry named after each declared
\* component is in the cubes directory, and every symlink the run made is
\* target/name -> staging/name/relativePath of the component it was made for.
C7_AllLinked ==
    pc = "done" =>
        /\ \A i \in 1..Len(cubes) : target[cubes[i].name].kind # "none"
        /\ \A j \in 1..Len(log) :
             log[j].op = "symlink" =>
                LET c == cubes[log[j].k]
                IN /\ log[j].ok
                   /\ log[j].dir = <<"target", c.name>>
                   /\ log[j].src = <<"staging", c.name, c.rel>>
                   /\ target[c.name] = Symlink(<<"staging", c.name, c.rel>>)

C7_Witness ==
    /\ pc = "done"
    /\ \E i, j \in 1..Len(log) :
         /\ log[i].op = "symlink" /\ log[i].src[3] = "sub"
         /\ log[j].op = "symlink" /\ log[j].src[3] = "."

\* C9: each fetch issues one clone of the component's URL into staging/name
\* with the component's backend; a checkout is issued only right after the
\* successful clone of the same fetch, in the same directory, for the pinned
\* revision, and it is issued exactly when that clone succeeded and the
\* revision is not null.
C9_CloneThenCheckout ==
    /\ \A i \in 1..Len(log) :
         log[i].op = "checkout" =>
            /\ i > 1
            /\ log[i - 1].op = "clone"
            /\ log[i - 1].ok
            /\ log[i - 1].k = log[i].k
            /\ log[i - 1].dir = log[i].dir
            /\ log[i - 1].tool = log[i].tool
            /\ log[i].rev # Null
            /\ log[i].rev = cubes[log[i].k].rev
    /\ \A i \in 1..Len(log) :
         log[i].op = "clone" =>
            LET c == cubes[log[i].k]
                pinned == log[i].ok /\ c.rev # Null
            IN /\ log[i].url = c.url
               /\ log[i].dir = <<"staging", c.name>>
               /\ log[i].tool = c.repo_type
               /\ \A j \in 1..Len(log) :
                    (log[j].op = "clone" /\ log[j].k = log[i].k) => j = i
               /\ IF i = Len(log)
                  THEN pinned <=> pc = "checkout"
                  ELSE pinned <=> (log[i + 1].op = "checkout" /\ log[i + 1].k = log[i].k)
    /\ pc = "checkout" => (log # <<>> /\ log[Len(log)].op = "clone")

C9_Witness ==
    \E i, j, n \in 1..Len(log) :
        /\ log[i].op = "checkout" /\ log[i].tool = "hg" /\ log[i].ok
        /\ log[j].op = "checkout" /\ log[j].tool = "git" /\ ~log[j].ok
        /\ log[n].op = "symlink"

\* C10: a symlink made for a component with a pinned revision is made only when
\* the clone it points into has that revision checked out.
C10_PinnedRevisionLinked ==
    \A i \in 1..Len(log) :
        (log[i].op = "symlink" /\ log[i].ok /\ log[i].rev # Null) =>
            staging[cubes[log[i].k].name].rev = log[i].rev

(***************************************************************************)
(* Properties of the selector                                              *)
(***************************************************************************)
RECURSIVE Str(_)
Str(n) == IF n < 10 THEN <<Digits[n + 1]>> ELSE Str(n \div 10) \o <<Digits[(n % 10) + 1]>>

RECURSIVE StripZeros(_)
StripZeros(s) == IF Len(s) > 1 /\ s[1] = "0" THEN StripZeros(Tail(s)) ELSE s

\* the line s is a decimal writing of the index n
Denotes(s, n) ==
    \E body \in {s} \cup (IF s # <<>> /\ s[1] = "-" /\ n = 0 THEN {Tail(s)} ELSE {}) :
        body # <<>> /\ StripZeros(body) = Str(n)

Chosen(s) == {row \in displayed : Denotes(s, row.key)}

\* C8: the selector returns only on a line that writes an index of the table,
\* with the path of the file shown on that row, whose declared version is the
\* one shown on that row; any other line is answered by the "not a valid
\* choice" message and a new prompt, and the prompt loop is left only by
\* returning.
C8_SelectorReturnsChosen ==
    /\ [](sel_pc = "returned" =>
            \E row \in Chosen(user_input) :
                /\ row.file = json_file[Len(json_file)]
                /\ \E i \in 1..Len(config_files) :
                     /\ config_files[i].path = json_file
                     /\ config_files[i].json.version = JVal("unicode", <<row.version>>))
    /\ [][sel_pc = "prompt" =>
            \/ sel_pc' = "returned" /\ Chosen(user_input') # {}
            \/ /\ sel_pc' = "prompt"
               /\ sel_out' = "is not a valid choice!"
               /\ Chosen(user_input') = {}]_vars

C8_Witness ==
    /\ sel_pc = "returned"
    /\ Len(config_files) = 2
    /\ user_input = <<"0", "1">>
    /\ config_files[1].json.version # config_files[2].json.version

====
